---- MODULE Spec2Model ----
(***************************************************************************)
(* A model of app.py: the Flask application that scores four health        *)
(* metrics with a pickled classifier (GET/POST /) and re-renders an echoed *)
(* assessment as a PDF (POST /report).                                     *)
(*                                                                         *)
(* Numbers.  A Python float is modelled as a decimal fixed-point number:   *)
(* the integer v stands for v / Scale, Scale = 10^FracDigits.  A           *)
(* probability is the integer p standing for p / PDen.  Strings are TLA+   *)
(* strings, taken apart character by character with SubSeq.                *)
(***************************************************************************)
EXTENDS Integers, Sequences, FiniteSets, TLC

(***************************************************************************)
(* The field names of the model's records.  TLC keeps the fields of a      *)
(* record in the order in which their names first occur in the module:     *)
(* they are listed here once, alphabetically, and every record below is    *)
(* written in that order, so that a record value is in TLC's normal form   *)
(* from the moment it is built and the workers that share it never         *)
(* reorder it.                                                             *)
(***************************************************************************)
FieldNames ==
    DOMAIN [advice |-> 0, as_attachment |-> 0, body |-> 0, categoryNames |-> 0,
            chart |-> 0, coef |-> 0, colour |-> 0, content |-> 0, data |-> 0,
            description |-> 0, download_name |-> 0, echoed |-> 0,
            explanation |-> 0, fillColor |-> 0, form |-> 0, height |-> 0,
            input_data |-> 0, inputs |-> 0, intercept |-> 0, kind |-> 0,
            label |-> 0, locals |-> 0, method |-> 0, mimetype |-> 0, ok |-> 0,
            origin |-> 0, path |-> 0, phase |-> 0, probability |-> 0,
            reasons |-> 0, request |-> 0, response |-> 0, result |-> 0,
            risk_colour |-> 0, risk_percent |-> 0, status |-> 0, style |-> 0,
            text |-> 0, val |-> 0, valueMax |-> 0, valueMin |-> 0,
            valueStep |-> 0, width |-> 0, x |-> 0, y |-> 0]

VARIABLES model, conn, now

vars == <<model, conn, now>>

(***************************************************************************)
(* Bounds of the model.                                                    *)
(***************************************************************************)
\* fractional decimal digits a modelled float carries
FracDigits == 1
\* probabilities are the multiples of 1/PDen in [0,1]
PDen == 2400
\* connections the server handles at the same time
NReq == 2
\* the classifiers the server specification samples, besides intercept 0
NPickles == 3
\* minutes the clock may advance
MaxClock == 1

RECURSIVE Pow10(_)
Pow10(n) == IF n = 0 THEN 1 ELSE 10 * Pow10(n - 1)

Scale == Pow10(FracDigits)

\* the float equal to the Python int n
FloatOf(n) == n * Scale

(***************************************************************************)
(* Characters and strings.                                                 *)
(***************************************************************************)
Digits == "0123456789"
LowerCase == "abcdefghijklmnopqrstuvwxyz"
UpperCase == "ABCDEFGHIJKLMNOPQRSTUVWXYZ"

\* s[i:j] with Python's clipping of the ends (positions from 1, j included)
Sub(s, i, j) ==
    LET a == IF i < 1 THEN 1 ELSE i
        b == IF j > Len(s) THEN Len(s) ELSE j
    IN  IF a > b THEN "" ELSE SubSeq(s, a, b)

Char(s, i) == Sub(s, i, i)

\* the position of character c in alphabet, 0 when it is not there
RECURSIVE IndexFrom(_, _, _)
IndexFrom(alphabet, c, i) ==
    IF i > Len(alphabet) THEN 0
    ELSE IF SubSeq(alphabet, i, i) = c THEN i
    ELSE IndexFrom(alphabet, c, i + 1)

IndexIn(alphabet, c) == IF c = "" THEN 0 ELSE IndexFrom(alphabet, c, 1)

IsDigit(c) == IndexIn(Digits, c) > 0
IsAlpha(c) == IndexIn(LowerCase, c) > 0 \/ IndexIn(UpperCase, c) > 0
DigitVal(c) == IndexIn(Digits, c) - 1
DigitChar(d) == SubSeq(Digits, d + 1, d + 1)

\* `sub in s`
Contains(s, sub) ==
    \E i \in 1..(Len(s) - Len(sub) + 1) : Sub(s, i, i + Len(sub) - 1) = sub

\* position of the first c in s at or after i, 0 when there is none
RECURSIVE Find(_, _, _)
Find(s, c, i) ==
    IF i > Len(s) THEN 0
    ELSE IF Char(s, i) = c THEN i
    ELSE Find(s, c, i + 1)

\* str.strip() on blanks
RECURSIVE Strip(_)
Strip(s) ==
    IF s = "" THEN s
    ELSE IF Char(s, 1) = " " THEN Strip(Sub(s, 2, Len(s)))
    ELSE IF Char(s, Len(s)) = " " THEN Strip(Sub(s, 1, Len(s) - 1))
    ELSE s

AllDigits(s) == \A i \in 1..Len(s) : IsDigit(Char(s, i))

\* the natural number a string of digits denotes ("" denotes 0)
RECURSIVE NatVal(_)
NatVal(s) ==
    IF s = "" THEN 0
    ELSE 10 * NatVal(Sub(s, 1, Len(s) - 1)) + DigitVal(Char(s, Len(s)))

\* the decimal digits of the natural number n
RECURSIVE NatStr(_)
NatStr(n) ==
    IF n < 10 THEN DigitChar(n)
    ELSE NatStr(n \div 10) \o DigitChar(n % 10)

\* the digits of n left-padded with zeros to width w
RECURSIVE PadStr(_, _)
PadStr(n, w) ==
    IF w <= 0 THEN ""
    ELSE PadStr(n \div 10, w - 1) \o DigitChar(n % 10)

\* s without its trailing zeros, keeping at least one character
RECURSIVE TrimZeros(_)
TrimZeros(s) ==
    IF Len(s) > 1 /\ Char(s, Len(s)) = "0"
    THEN TrimZeros(Sub(s, 1, Len(s) - 1))
    ELSE s

(***************************************************************************)
(* float(str) and str(float).                                              *)
(*                                                                         *)
(* ParseFloat accepts what float() accepts among the strings written with  *)
(* blanks, a sign, digits and one point: [blanks][+-](d+[.d*] | .d+)       *)
(* [blanks].  Every other string is a ValueError.  Exponents, "inf",       *)
(* "nan" and digit-group underscores are outside the strings the           *)
(* specifications submit, and so are fractions longer than FracDigits.     *)
(***************************************************************************)
ValueError == [ok |-> FALSE, val |-> 0]

ParseUnsigned(s) ==
    LET dot == Find(s, ".", 1)
        ip == IF dot = 0 THEN s ELSE Sub(s, 1, dot - 1)
        fp == IF dot = 0 THEN "" ELSE Sub(s, dot + 1, Len(s))
        fd == Sub(fp, 1, FracDigits)
    IN  IF /\ AllDigits(ip)
           /\ AllDigits(fp)
           /\ Len(ip) + Len(fp) > 0
        THEN [ok |-> TRUE,
              val |-> NatVal(ip) * Scale
                        + NatVal(fd) * Pow10(FracDigits - Len(fd))]
        ELSE ValueError

ParseFloat(str) ==
    LET s == Strip(str)
        signed == Char(s, 1) = "-" \/ Char(s, 1) = "+"
        u == ParseUnsigned(IF signed THEN Sub(s, 2, Len(s)) ELSE s)
    IN  IF signed /\ Char(s, 1) = "-" /\ u.ok
        THEN [ok |-> TRUE, val |-> 0 - u.val]
        ELSE u

\* str(v) of a float v: the integer part, a point, and the fraction's digits
\* without trailing zeros (at least one digit)
FormatFloat(v) ==
    LET a == IF v < 0 THEN 0 - v ELSE v
    IN  (IF v < 0 THEN "-" ELSE "")
            \o NatStr(a \div Scale) \o "."
            \o TrimZeros(PadStr(a % Scale, FracDigits))

(***************************************************************************)
(* request.form: the submitted fields in the order sent, each a            *)
(* <<key, value>> pair of strings.                                         *)
(***************************************************************************)
FormHas(form, key) == \E i \in 1..Len(form) : form[i][1] = key

\* form[key] for a key the form has: the first value sent under it
FormValue(form, key) ==
    LET first == CHOOSE i \in 1..Len(form) :
                    /\ form[i][1] = key
                    /\ \A j \in 1..(i - 1) : form[j][1] # key
    IN  form[first][2]

\* get_float without its except clause taking effect: the unparsed value is
\* used as 0
get_float_unguarded(form, key, default) ==
    IF ~FormHas(form, key) THEN FloatOf(default)
    ELSE ParseFloat(FormValue(form, key)).val

\* float(form.get(key, default)), default on ValueError
get_float(form, key, default) ==
    IF ~FormHas(form, key) THEN FloatOf(default)
    ELSE LET parsed == ParseFloat(FormValue(form, key))
         IN  IF parsed.ok THEN parsed.val ELSE FloatOf(default)

(***************************************************************************)
(* The classifier.  The pickled artifact is opaque: a handle stands for    *)
(* its fitted parameters, and predict_proba is a deterministic function of *)
(* the handle and the eight positions of the row, with values in [0,1].    *)
(***************************************************************************)
RECURSIVE Dot(_, _, _)
Dot(coef, x, n) ==
    IF n = 0 THEN 0 ELSE Dot(coef, x, n - 1) + coef[n] * x[n]

\* model.predict_proba(input_data)[0][1], as a multiple of 1/PDen
predict_proba(m, x) == (m.intercept + Dot(m.coef, x, Len(x))) % (PDen + 1)

Pickle(k) == [coef |-> <<1, 1, 2, 3, 5, 7, 11, 13>>, intercept |-> k]

\* the artifacts diabetes_model.pkl may hold: for every row, every
\* probability is the answer of one of them
Pickles == {Pickle(k) : k \in 0..PDen}

(***************************************************************************)
(* index(): the steps of the POST branch.                                  *)
(***************************************************************************)
pregnancies == 0
skin_thickness == 20
insulin == 80
dpf == Scale \div 2

\* the row with bmi and blood pressure in each other's column
input_data_swapped(glucose, blood_pressure, bmi, age) ==
    << FloatOf(pregnancies), glucose, bmi,
       FloatOf(skin_thickness), FloatOf(insulin), blood_pressure, dpf, age >>

input_data(glucose, blood_pressure, bmi, age) ==
    << FloatOf(pregnancies), glucose, blood_pressure,
       FloatOf(skin_thickness), FloatOf(insulin), bmi, dpf, age >>

\* n/d rounded to the nearest integer, a tie to the even one (n >= 0, d > 0)
RoundHalfEven(n, d) ==
    LET q == n \div d
        r == n % d
    IN  IF 2 * r < d THEN q
        ELSE IF 2 * r > d THEN q + 1
        ELSE IF q % 2 = 0 THEN q ELSE q + 1

\* the percentage cut, not rounded, to one decimal
RoundPercentTruncated(probability) ==
    ((probability * 1000) \div PDen) * (Scale \div 10)

\* round(probability * 100, 1), a float
RoundPercent(probability) ==
    RoundHalfEven(probability * 1000, PDen) * (Scale \div 10)

\* probability < tenths/10
ProbBelow(probability, tenths) == 10 * probability < tenths * PDen

\* the tiers with 0.3 itself still Low
ClassifyUpperInclusive(probability, risk_percent) ==
    IF 10 * probability <= 3 * PDen
    THEN [result |-> "Low diabetes risk (" \o FormatFloat(risk_percent) \o "%)",
          risk_colour |-> "green"]
    ELSE IF ProbBelow(probability, 6)
    THEN [result |-> "Moderate diabetes risk (" \o FormatFloat(risk_percent) \o "%)",
          risk_colour |-> "orange"]
    ELSE [result |-> "High diabetes risk (" \o FormatFloat(risk_percent) \o "%)",
          risk_colour |-> "red"]

\* the tiers with the first two branches in each other's place
ClassifySwapped(probability, risk_percent) ==
    IF ProbBelow(probability, 3)
    THEN [result |-> "Moderate diabetes risk (" \o FormatFloat(risk_percent) \o "%)",
          risk_colour |-> "orange"]
    ELSE IF ProbBelow(probability, 6)
    THEN [result |-> "Low diabetes risk (" \o FormatFloat(risk_percent) \o "%)",
          risk_colour |-> "green"]
    ELSE [result |-> "High diabetes risk (" \o FormatFloat(risk_percent) \o "%)",
          risk_colour |-> "red"]

\* the if/elif/else on probability: risk_colour and result
Classify(probability, risk_percent) ==
    IF ProbBelow(probability, 3)
    THEN [result |-> "Low diabetes risk (" \o FormatFloat(risk_percent) \o "%)",
          risk_colour |-> "green"]
    ELSE IF ProbBelow(probability, 6)
    THEN [result |-> "Moderate diabetes risk (" \o FormatFloat(risk_percent) \o "%)",
          risk_colour |-> "orange"]
    ELSE [result |-> "High diabetes risk (" \o FormatFloat(risk_percent) \o "%)",
          risk_colour |-> "red"]

\* the triggers with the thresholds themselves firing
ReasonsInclusive(glucose, bmi, age) ==
    (IF glucose >= FloatOf(140) THEN <<"elevated glucose">> ELSE <<>>)
        \o (IF bmi >= FloatOf(30) THEN <<"high BMI">> ELSE <<>>)
        \o (IF age >= FloatOf(45) THEN <<"older age">> ELSE <<>>)

Reasons(glucose, bmi, age) ==
    (IF glucose > FloatOf(140) THEN <<"elevated glucose">> ELSE <<>>)
        \o (IF bmi > FloatOf(30) THEN <<"high BMI">> ELSE <<>>)
        \o (IF age > FloatOf(45) THEN <<"older age">> ELSE <<>>)

\* sep.join(parts)
RECURSIVE Join(_, _)
Join(sep, parts) ==
    IF parts = <<>> THEN ""
    ELSE IF Len(parts) = 1 THEN parts[1]
    ELSE parts[1] \o sep \o Join(sep, Tail(parts))

Explanation(reasons) ==
    IF reasons # <<>>
    THEN "Main contributing factors: " \o Join(", ", reasons)
    ELSE "No major risk factors detected."

\* the advice chosen on the rounded percentage
AdviceFromPercent(probability) ==
    IF RoundPercent(probability) >= FloatOf(30)
    THEN "Reduce sugar intake, maintain healthy weight, and exercise regularly."
    ELSE "Maintain current healthy lifestyle."

Advice(probability) ==
    IF ~ProbBelow(probability, 3)
    THEN "Reduce sugar intake, maintain healthy weight, and exercise regularly."
    ELSE "Maintain current healthy lifestyle."

\* the locals of index() at render_template, from the second half of the
\* POST branch: the tier, the reasons, the explanation and the advice
Assessed(glucose, blood_pressure, bmi, age, x, probability, risk_percent, tier, reasons) ==
    [advice |-> Advice(probability),
     explanation |-> Explanation(reasons),
     input_data |-> x,
     inputs |-> << <<"Glucose (mg/dL)", glucose>>,
                   <<"Blood Pressure (mm Hg)", blood_pressure>>,
                   <<"BMI", bmi>>,
                   <<"Age", age>> >>,
     probability |-> probability,
     reasons |-> reasons,
     result |-> tier.result,
     risk_colour |-> tier.risk_colour,
     risk_percent |-> risk_percent]

\* ... from the rounding of the probability on
Scored(glucose, blood_pressure, bmi, age, x, probability, risk_percent) ==
    Assessed(glucose, blood_pressure, bmi, age, x, probability, risk_percent,
             Classify(probability, risk_percent), Reasons(glucose, bmi, age))

\* ... from the call of the classifier on
Predicted(glucose, blood_pressure, bmi, age, x, probability) ==
    Scored(glucose, blood_pressure, bmi, age, x, probability,
           RoundPercent(probability))

\* ... from the assembly of the row on
Coerced(glucose, blood_pressure, bmi, age, m) ==
    Predicted(glucose, blood_pressure, bmi, age,
              input_data(glucose, blood_pressure, bmi, age),
              predict_proba(m, input_data(glucose, blood_pressure, bmi, age)))

\* the locals of index() when it reaches render_template
IndexLocals(method, form, m) ==
    IF method = "POST"
    THEN Coerced(get_float(form, "glucose", 100),
                 get_float(form, "blood_pressure", 70),
                 get_float(form, "bmi", 25),
                 get_float(form, "age", 30), m)
    ELSE [advice |-> "",
          explanation |-> "",
          inputs |-> <<>>,
          result |-> "",
          risk_colour |-> "green",
          risk_percent |-> 0]

\* render_template("index.html", ...): the page and the values it is given
render_template(l) ==
    [body |-> [advice |-> l.advice,
               explanation |-> l.explanation,
               inputs |-> l.inputs,
               result |-> l.result,
               risk_colour |-> l.risk_colour,
               risk_percent |-> l.risk_percent],
     mimetype |-> "text/html",
     status |-> 200]

(***************************************************************************)
(* report(): the flowables, the markup parser behind Paragraph, and the    *)
(* handler.                                                                *)
(***************************************************************************)
NoChart == <<>>

Paragraph(text, style) ==
    [chart |-> NoChart,
     height |-> 0,
     kind |-> "Paragraph",
     style |-> style,
     text |-> text]

Spacer(width, height) ==
    [chart |-> NoChart,
     height |-> height,
     kind |-> "Spacer",
     style |-> "",
     text |-> ""]

PageBreak ==
    [chart |-> NoChart,
     height |-> 0,
     kind |-> "PageBreak",
     style |-> "",
     text |-> ""]

Drawing(chart) ==
    [chart |-> <<chart>>,
     height |-> 200,
     kind |-> "Drawing",
     style |-> "",
     text |-> ""]

\* reportlab.lib.colors: Color.hexval()
hexval(colour) ==
    CASE colour = "green" -> "0x008000"
      [] colour = "orange" -> "0xffa500"
      [] colour = "red" -> "0xff0000"

\* the tags of the paragraph markup the requests of the specifications use
IsParaTag(name) == name = "b" \/ name = "i" \/ name = "font"

\* Paragraph(text, style) parses text as markup when it is constructed and
\* raises ValueError unless every tag is closed by its own end tag, innermost
\* first.  A "<" that opens no tag is text.  TRUE: the text is accepted.
RECURSIVE ParaScan(_, _, _)
ParaScan(s, i, stack) ==
    IF i > Len(s) THEN stack = <<>>
    ELSE IF Char(s, i) # "<" THEN ParaScan(s, i + 1, stack)
    ELSE LET closing == Char(s, i + 1) = "/"
             from == IF closing THEN i + 2 ELSE i + 1
             gt == Find(s, ">", from)
             inner == Sub(s, from, gt - 1)
             blank == Find(inner, " ", 1)
             name == IF blank = 0 THEN inner ELSE Sub(inner, 1, blank - 1)
         IN  IF gt = 0 \/ ~IsAlpha(Char(s, from))
             THEN ParaScan(s, i + 1, stack)
             ELSE IF closing
             THEN /\ stack # <<>>
                  /\ stack[Len(stack)] = name
                  /\ ParaScan(s, gt + 1, SubSeq(stack, 1, Len(stack) - 1))
             ELSE /\ IsParaTag(name)
                  /\ ParaScan(s, gt + 1, Append(stack, name))

ParagraphAccepts(text) == ParaScan(text, 1, <<>>)

\* str.replace(old, new) for single characters
RECURSIVE Replace(_, _, _)
Replace(s, old, new) ==
    IF s = "" THEN ""
    ELSE (IF Char(s, 1) = old THEN new ELSE Char(s, 1))
            \o Replace(Sub(s, 2, Len(s)), old, new)

Upper(c) ==
    IF IndexIn(LowerCase, c) > 0 THEN Char(UpperCase, IndexIn(LowerCase, c)) ELSE c

Lower(c) ==
    IF IndexIn(UpperCase, c) > 0 THEN Char(LowerCase, IndexIn(UpperCase, c)) ELSE c

\* str.title(): a letter after a letter is lowered, any other letter raised
RECURSIVE TitleFrom(_, _)
TitleFrom(s, i) ==
    IF i > Len(s) THEN ""
    ELSE (IF IsAlpha(Char(s, i - 1)) THEN Lower(Char(s, i)) ELSE Upper(Char(s, i)))
            \o TitleFrom(s, i + 1)

Title(s) == TitleFrom(s, 1)

\* the day the clock is read on, as strftime('%d %B %Y') prints it
Today == "01 November 2026"

\* datetime.now().strftime('%d %B %Y, %H:%M'), t minutes after midnight
Strftime(t) == Today \o ", " \o PadStr(t \div 60, 2) \o ":" \o PadStr(t % 60, 2)

\* werkzeug's BadRequestKeyError, raised by request.form[key] for a key the
\* form lacks, is an HTTPException: Flask answers 400
BadRequestKeyError ==
    [body |-> [description |-> "Bad Request"],
     mimetype |-> "text/html",
     status |-> 400]

\* any other exception leaving the handler: Flask answers 500
InternalServerError ==
    [body |-> [description |-> "Internal Server Error"],
     mimetype |-> "text/html",
     status |-> 500]

send_file(content) ==
    [body |-> [as_attachment |-> TRUE,
               content |-> content,
               download_name |-> "diabetes_risk_report.pdf"],
     mimetype |-> "application/pdf",
     status |-> 200]

CoverPage(t) ==
    << Spacer(1, 150),
       Paragraph("<b>AI Diabetes Risk Assessment</b>", "Title"),
       Spacer(1, 20),
       Paragraph("Personalised Health Risk Report", "Heading2"),
       Spacer(1, 40),
       Paragraph("Generated on: " \o Strftime(t), "Normal"),
       Spacer(1, 20),
       Paragraph("<i>Created by Sam</i>", "Italic"),
       PageBreak >>

\* the colour without the Moderate branch
ReportColourTwoWay(risk_text) ==
    IF Contains(risk_text, "Low") THEN "green" ELSE "red"

\* "Low" in risk_text, else "Moderate" in risk_text, else red
ReportColour(risk_text) ==
    IF Contains(risk_text, "Low") THEN "green"
    ELSE IF Contains(risk_text, "Moderate") THEN "orange"
    ELSE "red"

SummaryMarkup(risk_color, risk_text) ==
    "<font color='" \o hexval(risk_color) \o "'><b>" \o risk_text \o "</b></font>"

ReportFields == {"advice", "explanation", "result", "risk_percent"}

\* the texts of the input summary's paragraphs, in the order of the form
RECURSIVE InputSummary(_)
InputSummary(form) ==
    IF form = <<>> THEN <<>>
    ELSE (IF Head(form)[1] \notin ReportFields
          THEN << Title(Replace(Head(form)[1], "_", " ")) \o ": " \o Head(form)[2] >>
          ELSE <<>>)
            \o InputSummary(Tail(form))

BarChart(value, risk_color) ==
    [categoryNames |-> <<"Risk %">>,
     data |-> << <<value>> >>,
     fillColor |-> risk_color,
     height |-> 150,
     valueMax |-> 100,
     valueMin |-> 0,
     valueStep |-> 20,
     width |-> 300,
     x |-> 50,
     y |-> 30]

\* the response of report() to `form` when the clock reads t: the statements
\* in order, the first exception ending the handler
report(form, t) ==
    IF ~FormHas(form, "result") THEN BadRequestKeyError
    ELSE
    LET risk_text == FormValue(form, "result")
        risk_color == ReportColour(risk_text)
        summary == SummaryMarkup(risk_color, risk_text)
    IN
    IF ~ParagraphAccepts(summary) THEN InternalServerError
    ELSE IF ~FormHas(form, "risk_percent") THEN BadRequestKeyError
    ELSE
    LET estimate == "Estimated risk probability: "
                        \o FormValue(form, "risk_percent") \o "%"
        lines == InputSummary(form)
    IN
    IF ~ParagraphAccepts(estimate) THEN InternalServerError
    ELSE IF \E k \in 1..Len(lines) : ~ParagraphAccepts(lines[k])
    THEN InternalServerError
    ELSE IF ~FormHas(form, "explanation") THEN BadRequestKeyError
    ELSE IF ~ParagraphAccepts(FormValue(form, "explanation"))
    THEN InternalServerError
    ELSE IF ~FormHas(form, "advice") THEN BadRequestKeyError
    ELSE IF ~ParagraphAccepts(FormValue(form, "advice"))
    THEN InternalServerError
    ELSE
    LET bar == ParseFloat(FormValue(form, "risk_percent"))
    IN
    IF ~bar.ok THEN InternalServerError
    ELSE send_file(
            CoverPage(t)
            \o << Paragraph("Risk Summary", "Heading1"),
                  Spacer(1, 10),
                  Paragraph(summary, "Normal"),
                  Spacer(1, 10),
                  Paragraph(estimate, "Normal"),
                  Spacer(1, 20),
                  Paragraph("User Input Summary", "Heading2") >>
            \o [k \in 1..Len(lines) |-> Paragraph(lines[k], "Normal")]
            \o << Spacer(1, 20),
                  Paragraph("Explanation", "Heading2"),
                  Paragraph(FormValue(form, "explanation"), "Normal"),
                  Spacer(1, 20),
                  Paragraph("Risk Reduction Advice", "Heading2"),
                  Paragraph(FormValue(form, "advice"), "Normal"),
                  Spacer(1, 30),
                  Paragraph("Risk Visualisation", "Heading2"),
                  Drawing(BarChart(bar.val, risk_color)) >>)

(***************************************************************************)
(* The server.  model is the module-level handle, loaded once when the     *)
(* module is imported.  conn[r] is one client connection: the request in   *)
(* flight on it, the locals index() held when it returned, the response,   *)
(* and the page the request was submitted from when the client echoed the  *)
(* hidden fields of an assessment.  now is the wall clock in minutes.      *)
(***************************************************************************)
Conns == 1..NReq

NoRequest == [form |-> <<>>, method |-> "", path |-> ""]

NoResponse ==
    [body |-> [description |-> ""], mimetype |-> "", status |-> 0]

\* the locals of index() before its POST branch
NoLocals == IndexLocals("GET", <<>>, Pickle(0))

Idle ==
    [echoed |-> FALSE,
     locals |-> NoLocals,
     origin |-> NoLocals,
     phase |-> "idle",
     request |-> NoRequest,
     response |-> NoResponse]

\* request as one module-level object: the form of the first request that
\* is waiting, whichever connection is served
RequestFormShared(r) ==
    LET waiting == {q \in Conns : conn[q].phase = "received"}
    IN  IF waiting = {} THEN conn[r].request.form
        ELSE conn[CHOOSE q \in waiting : \A o \in waiting : q <= o].request.form

\* Flask's request proxy: the form of the request this handler serves
RequestForm(r) == conn[r].request.form

Receive(r, q) ==
    /\ conn[r].phase = "idle"
    /\ conn' = [conn EXCEPT ![r] = [Idle EXCEPT !.phase = "received",
                                                !.request = q]]
    /\ UNCHANGED <<model, now>>

\* index(), GET and POST
Index(r) ==
    /\ conn[r].phase = "received"
    /\ conn[r].request.path = "/"
    /\ LET l == IndexLocals(conn[r].request.method, RequestForm(r), model)
       IN  conn' = [conn EXCEPT ![r].phase = "responded",
                                ![r].locals = l,
                                ![r].response = render_template(l)]
    /\ UNCHANGED <<model, now>>

\* report()
Report(r) ==
    /\ conn[r].phase = "received"
    /\ conn[r].request.path = "/report"
    /\ conn' = [conn EXCEPT ![r].phase = "responded",
                            ![r].response = report(RequestForm(r), now)]
    /\ UNCHANGED <<model, now>>

\* the client has the response; the connection is free again
Close(r) ==
    /\ conn[r].phase = "responded"
    /\ conn' = [conn EXCEPT ![r] = Idle]
    /\ UNCHANGED <<model, now>>

Tick ==
    /\ now < MaxClock
    /\ now' = now + 1
    /\ UNCHANGED <<model, conn>>

\* the fields of the page's download form: the assessment as the page shows
\* it, then the four inputs
EchoForm(page) ==
    << <<"result", page.result>>,
       <<"risk_percent", FormatFloat(page.risk_percent)>>,
       <<"explanation", page.explanation>>,
       <<"advice", page.advice>>,
       <<"glucose", FormatFloat(page.inputs[1][2])>>,
       <<"blood_pressure", FormatFloat(page.inputs[2][2])>>,
       <<"bmi", FormatFloat(page.inputs[3][2])>>,
       <<"age", FormatFloat(page.inputs[4][2])>> >>

\* the client asks for the PDF of the assessment it was shown
Echo(r) ==
    /\ conn[r].phase = "responded"
    /\ conn[r].request = [form |-> conn[r].request.form,
                          method |-> "POST",
                          path |-> "/"]
    /\ conn' = [conn EXCEPT ![r] =
                  [Idle EXCEPT !.phase = "received",
                               !.request = [form |-> EchoForm(conn[r].response.body),
                                            method |-> "POST",
                                            path |-> "/report"],
                               !.echoed = TRUE,
                               !.origin = conn[r].locals]]
    /\ UNCHANGED <<model, now>>

(***************************************************************************)
(* The requests clients send.                                              *)
(***************************************************************************)
Get == [form |-> <<>>, method |-> "GET", path |-> "/"]

Post(form) == [form |-> form, method |-> "POST", path |-> "/"]

PostReport(form) == [form |-> form, method |-> "POST", path |-> "/report"]

\* form without its fields named key
RECURSIVE Without(_, _)
Without(form, key) ==
    IF form = <<>> THEN <<>>
    ELSE (IF Head(form)[1] = key THEN <<>> ELSE <<Head(form)>>)
            \o Without(Tail(form), key)

\* form with the value of its field key replaced
With(form, key, value) ==
    [k \in 1..Len(form) |->
        IF form[k][1] = key THEN <<key, value>> ELSE form[k]]

\* a complete report form, as a client that was shown an assessment sends it
SampleReport ==
    << <<"result", "Moderate diabetes risk (45.0%)">>,
       <<"risk_percent", "45.0">>,
       <<"explanation", "Main contributing factors: elevated glucose">>,
       <<"advice", "Reduce sugar intake, maintain healthy weight, and exercise regularly.">>,
       <<"blood_pressure", "80.0">> >>

ServerRequests ==
    {Get,
     Post(<<>>),
     Post(<< <<"glucose", "150">>, <<"blood_pressure", "80">>,
             <<"bmi", "35">>, <<"age", "50">> >>),
     Post(<< <<"glucose", "abc">>, <<"age", "46">> >>),
     PostReport(SampleReport),
     PostReport(With(SampleReport, "risk_percent", "abc")),
     PostReport(With(Without(SampleReport, "advice"), "result", "<b>"))}
        \cup {PostReport(Without(SampleReport, key)) : key \in ReportFields}

\* the classifiers the server specification is run with
ServerPickles == {Pickle((i * PDen) \div NPickles) : i \in 0..NPickles}

\* a set of forms: the field absent, or sent with one of the values
Field(key, values) == {<<>>} \cup {<< <<key, v>> >> : v \in values}

\* the submissions of the input specification: each field absent, not a
\* number, or a number on either side of its trigger
InputForms ==
    {g \o b \o m \o a :
        g \in Field("glucose", {"abc", "140", "140.5"}),
        b \in Field("blood_pressure", {"80", "-5"}),
        m \in Field("bmi", {"30", " 31 "}),
        a \in Field("age", {"", "45", "46"})}

\* the submissions of the assessment specification
AssessForms ==
    {<<>>,
     << <<"glucose", "150">>, <<"blood_pressure", "80">>,
        <<"bmi", "35">>, <<"age", "50">> >>}

(***************************************************************************)
(* Spec: the server under concurrent requests.                             *)
(***************************************************************************)
Init ==
    /\ model \in ServerPickles
    /\ conn = [r \in Conns |-> Idle]
    /\ now = 0

Next ==
    \/ \E r \in Conns : \E q \in ServerRequests : Receive(r, q)
    \/ \E r \in Conns : Index(r)
    \/ \E r \in Conns : Report(r)
    \/ \E r \in Conns : Close(r)
    \/ Tick

Spec == Init /\ [][Next]_vars

(***************************************************************************)
(* SpecAssess: one client submits an assessment, under every classifier,   *)
(* and asks for its PDF.                                                   *)
(***************************************************************************)
InitAssess ==
    /\ model \in Pickles
    /\ conn = [r \in Conns |-> Idle]
    /\ now = 0

NextAssess ==
    \/ \E f \in AssessForms : Receive(1, Post(f))
    \/ Index(1)
    \/ Echo(1)
    \/ Report(1)
    \/ Close(1)

SpecAssess == InitAssess /\ [][NextAssess]_vars

(***************************************************************************)
(* SpecInputs: one client submits every form of InputForms.                *)
(***************************************************************************)
NextInputs ==
    \/ \E f \in InputForms : Receive(1, Post(f))
    \/ Index(1)
    \/ Close(1)

SpecInputs == Init /\ [][NextInputs]_vars

(***************************************************************************)
(* Properties.                                                             *)
(***************************************************************************)
\* connection r holds the response of index() to a POST
AssessmentAt(r) ==
    /\ conn[r].phase = "responded"
    /\ conn[r].request.method = "POST"
    /\ conn[r].request.path = "/"

\* connection r holds the response of report() to the echo of an assessment
EchoedReportAt(r) ==
    /\ conn[r].phase = "responded"
    /\ conn[r].request.path = "/report"
    /\ conn[r].echoed

StartsWith(s, prefix) == Sub(s, 1, Len(prefix)) = prefix

\* C1: for every probability p computed by POST /, p < 0.3 gives green and a
\* result that begins "Low", 0.3 <= p < 0.6 gives orange and "Moderate",
\* p >= 0.6 gives red and "High"; the lower bounds are inclusive.
C1_TierThresholds ==
    \A r \in Conns :
        AssessmentAt(r) =>
            LET p == conn[r].locals.probability
                b == conn[r].response.body
            IN  /\ 10 * p < 3 * PDen =>
                    /\ b.risk_colour = "green"
                    /\ StartsWith(b.result, "Low diabetes risk (")
                /\ (3 * PDen <= 10 * p /\ 10 * p < 6 * PDen) =>
                    /\ b.risk_colour = "orange"
                    /\ StartsWith(b.result, "Moderate diabetes risk (")
                /\ 6 * PDen <= 10 * p =>
                    /\ b.risk_colour = "red"
                    /\ StartsWith(b.result, "High diabetes risk (")

\* an assessment whose probability is 0.3 exactly, shown Moderate/orange
C1_Witness ==
    \E r \in Conns :
        /\ AssessmentAt(r)
        /\ 10 * conn[r].locals.probability = 3 * PDen
        /\ conn[r].response.body.risk_colour = "orange"
        /\ StartsWith(conn[r].response.body.result, "Moderate")

Tiers ==
    << [colour |-> "green", label |-> "Low"],
       [colour |-> "orange", label |-> "Moderate"],
       [colour |-> "red", label |-> "High"] >>

Rank(colour) ==
    CASE colour = "green" -> 1
      [] colour = "orange" -> 2
      [] colour = "red" -> 3

\* the probabilities an assessment at p is compared with: its neighbours and
\* a grid over [0,1]
Probes(p) ==
    ({p - 1, p + 1} \cap (0..PDen)) \cup {(i * PDen) \div 24 : i \in 0..24}

\* C2: every probability is assigned exactly one of the three tiers, and for
\* p1 <= p2 the tier of p1 is not higher than the tier of p2 in the order
\* Low < Moderate < High.
C2_TierMonotone ==
    \A r \in Conns :
        AssessmentAt(r) =>
            LET p == conn[r].locals.probability
                b == conn[r].response.body
            IN  /\ Cardinality({t \in 1..Len(Tiers) :
                        /\ b.risk_colour = Tiers[t].colour
                        /\ StartsWith(b.result, Tiers[t].label)}) = 1
                /\ \A q \in Probes(p) :
                    LET other == Classify(q, RoundPercent(q)).risk_colour
                    IN  /\ q <= p => Rank(other) <= Rank(b.risk_colour)
                        /\ p <= q => Rank(b.risk_colour) <= Rank(other)

\* an assessment at 0.6 exactly, High, with a lower tier just below it
C2_Witness ==
    \E r \in Conns :
        /\ AssessmentAt(r)
        /\ 10 * conn[r].locals.probability = 6 * PDen
        /\ conn[r].response.body.risk_colour = "red"
        /\ Classify(conn[r].locals.probability - 1, 0).risk_colour = "orange"

\* what float() makes of the values InputForms sends, and the default for a
\* field that is absent or no number
Expected(form, key, default) ==
    IF ~FormHas(form, key) THEN default * Scale
    ELSE LET v == FormValue(form, key)
         IN  CASE v = "140" -> 140 * Scale
               [] v = "140.5" -> 140 * Scale + Scale \div 2
               [] v = "80" -> 80 * Scale
               [] v = "-5" -> (0 - 5) * Scale
               [] v = "30" -> 30 * Scale
               [] v = " 31 " -> 31 * Scale
               [] v = "45" -> 45 * Scale
               [] v = "46" -> 46 * Scale
               [] OTHER -> default * Scale

\* C3: the explanation is computed from the inputs alone: glucose > 140,
\* bmi > 30 and age > 45 (strict: 140, 30 and 45 do not fire) contribute
\* "elevated glucose", "high BMI", "older age" in that order, joined by ", "
\* after "Main contributing factors: "; with no trigger the text is
\* "No major risk factors detected.".
C3_Explanation ==
    \A r \in Conns :
        AssessmentAt(r) =>
            LET f == conn[r].request.form
                g == Expected(f, "glucose", 100) > 140 * Scale
                m == Expected(f, "bmi", 25) > 30 * Scale
                a == Expected(f, "age", 30) > 45 * Scale
                e == conn[r].response.body.explanation
            IN  /\ (g /\ m /\ a) =>
                    e = "Main contributing factors: elevated glucose, high BMI, older age"
                /\ (g /\ m /\ ~a) =>
                    e = "Main contributing factors: elevated glucose, high BMI"
                /\ (g /\ ~m /\ a) =>
                    e = "Main contributing factors: elevated glucose, older age"
                /\ (~g /\ m /\ a) =>
                    e = "Main contributing factors: high BMI, older age"
                /\ (g /\ ~m /\ ~a) =>
                    e = "Main contributing factors: elevated glucose"
                /\ (~g /\ m /\ ~a) => e = "Main contributing factors: high BMI"
                /\ (~g /\ ~m /\ a) => e = "Main contributing factors: older age"
                /\ (~g /\ ~m /\ ~a) => e = "No major risk factors detected."

\* all three triggers fire, and the text names them in the fixed order
C3_Witness ==
    \E r \in Conns :
        /\ AssessmentAt(r)
        /\ FormHas(conn[r].request.form, "glucose")
        /\ FormValue(conn[r].request.form, "glucose") = "140.5"
        /\ conn[r].response.body.explanation
            = "Main contributing factors: elevated glucose, high BMI, older age"

\* C4: the advice is a binary choice on the probability itself: for p >= 0.3
\* "Reduce sugar intake, ...", for p < 0.3 "Maintain current healthy
\* lifestyle.", whatever the rounded risk_percent shows.
C4_Advice ==
    \A r \in Conns :
        AssessmentAt(r) =>
            LET p == conn[r].locals.probability
                advice == conn[r].response.body.advice
            IN  /\ 3 * PDen <= 10 * p =>
                    advice = "Reduce sugar intake, maintain healthy weight, and exercise regularly."
                /\ 10 * p < 3 * PDen =>
                    advice = "Maintain current healthy lifestyle."

\* a probability below 0.3 whose risk_percent rounds to 30.0: the advice
\* follows the probability
C4_Witness ==
    \E r \in Conns :
        /\ AssessmentAt(r)
        /\ 10 * conn[r].locals.probability < 3 * PDen
        /\ conn[r].response.body.risk_percent = 30 * Scale
        /\ conn[r].response.body.advice = "Maintain current healthy lifestyle."

\* C5: the row passed to the classifier is [0, glucose, bloodPressure, 20,
\* 80, bmi, 0.5, age] in that order, the four user values being the coerced
\* ones.
C5_FeatureVector ==
    \A r \in Conns :
        AssessmentAt(r) =>
            LET f == conn[r].request.form
                x == conn[r].locals.input_data
            IN  /\ Len(x) = 8
                /\ x[1] = 0
                /\ x[2] = Expected(f, "glucose", 100)
                /\ x[3] = Expected(f, "blood_pressure", 70)
                /\ x[4] = 20 * Scale
                /\ x[5] = 80 * Scale
                /\ x[6] = Expected(f, "bmi", 25)
                /\ 2 * x[7] = Scale
                /\ x[8] = Expected(f, "age", 30)
                /\ conn[r].locals.probability = predict_proba(model, x)

\* four distinct user values, each in its own position
C5_Witness ==
    \E r \in Conns :
        /\ AssessmentAt(r)
        /\ conn[r].locals.input_data
            = << 0, 140 * Scale + Scale \div 2, 80 * Scale, 20 * Scale,
                 80 * Scale, 31 * Scale, Scale \div 2, 46 * Scale >>

\* C6: coercion has no failure path: a field that is missing or does not
\* parse takes its default (100, 70, 25, 30), a field that parses is used as
\* given, negative values included, and the response is the page.
C6_Coercion ==
    \A r \in Conns :
        AssessmentAt(r) =>
            LET f == conn[r].request.form
                resp == conn[r].response
            IN  /\ resp.status = 200
                /\ resp.mimetype = "text/html"
                /\ resp.body.inputs
                    = << <<"Glucose (mg/dL)", Expected(f, "glucose", 100)>>,
                         <<"Blood Pressure (mm Hg)", Expected(f, "blood_pressure", 70)>>,
                         <<"BMI", Expected(f, "bmi", 25)>>,
                         <<"Age", Expected(f, "age", 30)>> >>

\* glucose is no number, age is empty, blood pressure is negative, bmi is
\* absent: the defaults and the value as given
C6_Witness ==
    \E r \in Conns :
        /\ AssessmentAt(r)
        /\ conn[r].request.form
            = << <<"glucose", "abc">>, <<"blood_pressure", "-5">>, <<"age", "">> >>
        /\ conn[r].response.body.inputs
            = << <<"Glucose (mg/dL)", 100 * Scale>>,
                 <<"Blood Pressure (mm Hg)", (0 - 5) * Scale>>,
                 <<"BMI", 25 * Scale>>,
                 <<"Age", 30 * Scale>> >>

\* C7: a POST /report that lacks one of result, risk_percent, explanation,
\* advice ends in a 4xx response, never in a server error and never in a PDF.
C7_MissingFieldIs4xx ==
    \A r \in Conns :
        ( /\ conn[r].phase = "responded"
          /\ conn[r].request.path = "/report"
          /\ \E key \in ReportFields : ~FormHas(conn[r].request.form, key) )
        => conn[r].response.status \in 400..499

\* the flowables of a PDF response
ContentOf(resp) == resp.body.content

\* the chart of a PDF response: the last flowable is the drawing
ChartOf(resp) == ContentOf(resp)[Len(ContentOf(resp))].chart[1]

\* the texts of a PDF response's paragraphs
TextsOf(resp) ==
    {ContentOf(resp)[k].text : k \in 1..Len(ContentOf(resp))}

\* C8: risk_percent is probability x 100 rounded to one decimal; echoed to
\* POST /report it is parsed to a bar value equal to the value the page
\* showed and the summary prints, within [0, 100].
C8_RoundTrip ==
    \A r \in Conns :
        EchoedReportAt(r) =>
            LET shown == conn[r].origin.risk_percent
                p == conn[r].origin.probability
                resp == conn[r].response
                diff == shown * PDen - 100 * p * Scale
            IN  /\ resp.status = 200
                /\ 20 * diff <= Scale * PDen
                /\ 20 * (0 - diff) <= Scale * PDen
                /\ ChartOf(resp).data = << <<shown>> >>
                /\ 0 <= shown /\ shown <= 100 * Scale
                /\ ("Estimated risk probability: " \o FormatFloat(shown) \o "%")
                        \in TextsOf(resp)

\* an assessment below 0.3 that rounds up to 30.0, drawn as a bar of 30.0
C8_Witness ==
    \E r \in Conns :
        /\ EchoedReportAt(r)
        /\ conn[r].response.status = 200
        /\ 10 * conn[r].origin.probability < 3 * PDen
        /\ ChartOf(conn[r].response).data = << <<30 * Scale>> >>
        /\ "Estimated risk probability: 30.0%" \in TextsOf(conn[r].response)

\* C10: for every result POST / produces, the colour POST /report derives
\* from the echoed string is the risk_colour of the assessment, and it
\* colours both the summary text and the bar.
C10_ColourAgreement ==
    \A r \in Conns :
        EchoedReportAt(r) =>
            LET colour == conn[r].origin.risk_colour
                resp == conn[r].response
            IN  /\ resp.status = 200
                /\ ChartOf(resp).fillColor = colour
                /\ ("<font color='" \o hexval(colour) \o "'><b>"
                        \o conn[r].origin.result \o "</b></font>")
                        \in TextsOf(resp)

\* a Moderate assessment whose report is orange in the summary and the bar
C10_Witness ==
    \E r \in Conns :
        /\ EchoedReportAt(r)
        /\ conn[r].response.status = 200
        /\ conn[r].origin.risk_colour = "orange"
        /\ ChartOf(conn[r].response).fillColor = "orange"
        /\ \E t \in TextsOf(conn[r].response) : StartsWith(t, "<font color='0xffa500'>")

\* a response without the reading of the clock: the cover page's
\* "Generated on" line emptied
Timeless(resp) ==
    IF resp.mimetype = "application/pdf"
    THEN [resp EXCEPT !.body.content =
            [k \in 1..Len(@) |->
                IF StartsWith(@[k].text, "Generated on: ")
                THEN [@[k] EXCEPT !.text = "Generated on: "]
                ELSE @[k]]]
    ELSE resp

EmptyAssessment ==
    [advice |-> "", explanation |-> "", inputs |-> <<>>, result |-> "",
     risk_colour |-> "green", risk_percent |-> 0]

\* every GET / holds the empty assessment
GetIsEmpty ==
    \A r \in Conns :
        (conn[r].phase = "responded" /\ conn[r].request = Get) =>
            /\ conn[r].response.status = 200
            /\ conn[r].response.body = EmptyAssessment

\* C9, as stated: under any interleaving of GET /, POST / and POST /report
\* the response to a request is a function of its own form fields and the
\* model only (two connections holding the same request hold the same
\* response), and a GET / yields the empty assessment.
C9_OwnFieldsOnly ==
    /\ GetIsEmpty
    /\ \A r1, r2 \in Conns :
        ( /\ conn[r1].phase = "responded"
          /\ conn[r2].phase = "responded"
          /\ conn[r1].request = conn[r2].request )
        => conn[r1].response = conn[r2].response

\* the same, the cover page's reading of the clock set aside
OwnFieldsAndClock ==
    /\ GetIsEmpty
    /\ \A r1, r2 \in Conns :
        ( /\ conn[r1].phase = "responded"
          /\ conn[r2].phase = "responded"
          /\ conn[r1].request = conn[r2].request )
        => Timeless(conn[r1].response) = Timeless(conn[r2].response)

\* C9, amended: under any interleaving the model handle is never written, a
\* step of one request changes no other connection, a GET / yields the empty
\* assessment, and the response to a request is a function of its own form
\* fields and the model, and for POST /report also of the time the cover
\* page prints.
C9_Isolation ==
    [][ /\ model' = model
        /\ \A r \in Conns :
            conn'[r] # conn[r] =>
                \A q \in Conns \ {r} : conn'[q] = conn[q]
        /\ OwnFieldsAndClock' ]_vars

\* two PDFs of one form built at different minutes: they differ, and only
\* in the time the cover page prints
C9_Witness ==
    \E r1, r2 \in Conns :
        /\ conn[r1].phase = "responded"
        /\ conn[r2].phase = "responded"
        /\ conn[r1].request = conn[r2].request
        /\ conn[r1].response.mimetype = "application/pdf"
        /\ conn[r1].response # conn[r2].response
        /\ Timeless(conn[r1].response) = Timeless(conn[r2].response)
====
